---- MODULE Spec2Model ----
(***************************************************************************)
(* Model of casim.py: the cellular-automaton tumour growth simulation      *)
(* (class CancerSimulator) with its lineage ledger, the reconstruction of  *)
(* per-cell mutation lists, the histogram builder (bulk_seq), sampling,    *)
(* and the construction of the parameters (class                           *)
(* CancerSimulatorParameters).                                             *)
(*                                                                         *)
(* Conventions:                                                            *)
(*  - Python lists are sequences; Python index i is TLA+ index i+1 (At).   *)
(*  - probabilities are percentages (0.5 is 50); a Bernoulli draw          *)
(*    prng.random() < p is a choice over the outcomes p allows (Draws).    *)
(*  - the pool is a Python list used only through shuffle, sample, append, *)
(*    remove and iteration, so it is a bag of coordinates; shuffle and     *)
(*    sample are choices over orders and sub-bags.                         *)
(*  - the grid is a scipy lil_matrix: an index in [-n, 0) wraps to n+index *)
(*    and an index outside [-n, n) raises IndexError.                      *)
(***************************************************************************)
EXTENDS Bags, FiniteSets, Integers, Naturals, Sequences, TLC

VARIABLES
    parameters,           \* CancerSimulatorParameters held by the simulator
    mtx,                  \* self.__mtx: physical coordinate -> clone-id
    mut_container,        \* self.__mut_container: list of (origin, count)
    pool,                 \* self.__pool
    benefitial_mutation,  \* self.__benefitial_mutation
    growth_plot_data,     \* self.__growth_plot_data
    mutation_counter,     \* local of tumourGrowth
    step,                 \* loop variable of tumourGrowth
    temp_pool,            \* local of tumourGrowth
    todo,                 \* cells the loop "for cell in self.__pool" has not visited yet
    pc,                   \* position in run()/tumourGrowth()
    err,                  \* exception that ended the run ("" when none)
    last,                 \* record of the step just executed (history)
    DNA,                  \* argument of a direct bulk_seq call
    edge_hist,            \* result of that call
    args,                 \* arguments of CancerSimulatorParameters(...)
    vaf,                  \* true_vaf of run() (line 381): what tumourGrowth
                          \* returned, if it returned
    ancestry              \* history: for each ledger index, the own-ids of the
                          \* entries made along the line of descent of its clone

(* what the simulation and bulk_seq leave alone *)
callVars == <<args, vaf>>

vars == <<parameters, mtx, mut_container, pool, benefitial_mutation,
          growth_plot_data, mutation_counter, step, temp_pool, todo, pc, err,
          last, DNA, edge_hist, args, vaf, ancestry>>

----------------------------------------------------------------------------
(* Bounds *)

MaxGen == 2

MaxLedger == 6

MaxCells == 2

MaxMuts == 2

MaxId == 4

----------------------------------------------------------------------------
(* Parameter Bundle *)

(* A constructor argument is None, a number or a string.  Numbers are held *)
(* in hundredths: 0.5 is Num(50) and 3 is Num(300).                        *)
None == [tag |-> "None", num |-> 0, str |-> ""]

Num(h) == [tag |-> "num", num |-> h, str |-> ""]

Str(s) == [tag |-> "str", num |-> 0, str |-> s]

(* int(value): truncation towards zero, from hundredths to a whole number *)
typ_int(h) == IF h >= 0 THEN h \div 100 ELSE -((-h) \div 100)

(* float(value): the same number; probabilities stay in hundredths *)
typ_float(h) == h

(* check_set_number(value, typ, default, minimum, maximum).  minimum and   *)
(* maximum are {} for None and {m} for a limit m, in the unit of the       *)
(* result (whole numbers for int, hundredths for float).  A string stands  *)
(* for a value typ() cannot convert.                                       *)
check_set_number(value, typ, default, minimum, maximum) ==
    IF value.tag = "None"
    THEN [raises |-> "", value |-> default]
    ELSE IF value.tag = "str"
    THEN [raises |-> "TypeError", value |-> default]
    ELSE LET v == IF typ = "int" THEN typ_int(value.num) ELSE typ_float(value.num)
         IN  IF \E m \in minimum : v < m
             THEN [raises |-> "ValueError", value |-> default]
             ELSE IF \E m \in maximum : v > m
             THEN [raises |-> "ValueError", value |-> default]
             ELSE [raises |-> "", value |-> v]

(* number_of_generations: its default and its minimum (line 124) *)
DefaultGenerations == 2

MinGenerations == 1

(* the tumour_multiplicity setter (lines 190-203) *)
tumour_multiplicity_setter(val) ==
    IF val.tag = "None"
    THEN [raises |-> "", value |-> "single"]
    ELSE IF val.tag # "str"
    THEN [raises |-> "TypeError", value |-> "single"]
    ELSE IF val.str \notin {"single", "double"}
    THEN [raises |-> "ValueError", value |-> "single"]
    ELSE [raises |-> "", value |-> val.str]

(* the property setters (lines 112-203) *)
setter(field, val) ==
    CASE field = "matrix_size" ->
            check_set_number(val, "int", 10, {1}, {})
      [] field = "number_of_generations" ->
            check_set_number(val, "int", DefaultGenerations, {MinGenerations}, {})
      [] field = "division_probability" ->
            check_set_number(val, "float", 100, {0}, {100})
      [] field = "advantageous_division_probability" ->
            check_set_number(val, "float", 100, {0}, {100})
      [] field = "death_probability" ->
            check_set_number(val, "float", 0, {0}, {100})
      [] field = "fitness_advantage_death_probability" ->
            check_set_number(val, "float", 0, {0}, {100})
      [] field = "mutation_rate" ->
            check_set_number(val, "float", 80, {0}, {100})
      [] field = "advantageous_mutation_probability" ->
            check_set_number(val, "float", 100, {0}, {100})
      [] field = "mutations_per_division" ->
            check_set_number(val, "int", 1, {0}, {})
      [] field = "time_of_advantageous_mutation" ->
            check_set_number(val, "int", 50000, {0}, {})
      [] field = "number_of_clonal" ->
            check_set_number(val, "int", 1, {0}, {})
      [] field = "tumour_multiplicity" ->
            tumour_multiplicity_setter(val)

(* the fields in the order __init__ assigns them (lines 100-111) *)
Fields ==
    <<"matrix_size", "number_of_generations", "division_probability",
      "advantageous_division_probability", "death_probability",
      "fitness_advantage_death_probability", "mutation_rate",
      "advantageous_mutation_probability", "mutations_per_division",
      "time_of_advantageous_mutation", "number_of_clonal", "tumour_multiplicity">>

FieldSet == {Fields[k] : k \in 1 .. Len(Fields)}

ProbabilityFields ==
    {"division_probability", "advantageous_division_probability",
     "death_probability", "fitness_advantage_death_probability",
     "mutation_rate", "advantageous_mutation_probability"}

IntFields ==
    {"matrix_size", "number_of_generations", "mutations_per_division",
     "time_of_advantageous_mutation", "number_of_clonal"}

(* the argument that gives field f the value x of a bundle *)
ArgOf(f, x) ==
    IF f \in ProbabilityFields THEN Num(x)
    ELSE IF f \in IntFields THEN Num(100 * x)
    ELSE Str(x)

(* The bundles the runs are started with.  Where cells die the population  *)
(* stays small and single mode runs MaxGen generations; without death it   *)
(* runs the default number.  Double mode runs the default number where     *)
(* cells die and the minimum where none does.                              *)
ParameterSpace ==
    {p \in [matrix_size : {1, 3, 4},
            number_of_generations : {MinGenerations, DefaultGenerations, MaxGen},
            division_probability : {0, 50},
            advantageous_division_probability : {0, 50},
            death_probability : {0, 50, 100},
            fitness_advantage_death_probability : {0, 100},
            mutation_rate : {50},
            advantageous_mutation_probability : {50},
            mutations_per_division : {1},
            time_of_advantageous_mutation : {0, 1},
            number_of_clonal : {1},
            tumour_multiplicity : {"single", "double"}] :
        /\ p.fitness_advantage_death_probability # p.death_probability
        /\ p.division_probability = 0 => p.advantageous_division_probability = 0
        /\ \A f \in FieldSet : setter(f, ArgOf(f, p[f])).raises = ""
        /\ IF p.tumour_multiplicity = "single"
           THEN p.number_of_generations =
                    IF p.death_probability > 0 THEN MaxGen ELSE DefaultGenerations
           ELSE /\ p.time_of_advantageous_mutation = 0
                /\ p.number_of_generations =
                    IF p.death_probability > 0 THEN DefaultGenerations ELSE MinGenerations}

(* CancerSimulatorParameters() with every argument None *)
DefaultParameters == [f \in FieldSet |-> setter(f, None).value]

NoArgs == [f \in FieldSet |-> None]

Draws(p) == {b \in BOOLEAN : (b => p > 0) /\ (~b => p < 100)}

----------------------------------------------------------------------------
(* Spatial grid (lil_matrix) *)

At(s, i) == s[i + 1]

Coords(n) == (0 .. n - 1) \X (0 .. n - 1)

InRange(i) == i >= -parameters.matrix_size /\ i < parameters.matrix_size

Wrap(i) == IF i < 0 THEN i + parameters.matrix_size ELSE i

Phys(cell) == <<Wrap(cell[1]), Wrap(cell[2])>>

IndexOK(cell) == InRange(cell[1]) /\ InRange(cell[2])

Get(cell) == mtx[Phys(cell)]

neighboursList(cell) ==
    {<<cell[1] - 1, cell[2] + 1>>,
     <<cell[1]    , cell[2] + 1>>,
     <<cell[1] + 1, cell[2] + 1>>,
     <<cell[1] - 1, cell[2]    >>,
     <<cell[1] + 1, cell[2]    >>,
     <<cell[1] - 1, cell[2] - 1>>,
     <<cell[1]    , cell[2] - 1>>,
     <<cell[1] + 1, cell[2] - 1>>}

neighboursRaises(cell) == \E y \in neighboursList(cell) : ~IndexOK(y)

neighbours(cell) == {y \in neighboursList(cell) : Get(y) = 0}

----------------------------------------------------------------------------
(* History record of the step just executed *)

(* true_vaf before tumourGrowth has returned *)
NoVaf == [returned |-> FALSE, spectrum |-> <<>>]

NoLast ==
    [kind |-> "init", cell |-> <<0, 0>>, place |-> <<0, 0>>,
     benefitial |-> FALSE, mutated |-> FALSE, advDraw |-> FALSE,
     oldid |-> 0, benBefore |-> 0, lenBefore |-> 0,
     poolBefore |-> EmptyBag, killed |-> EmptyBag, killedIds |-> {}]

----------------------------------------------------------------------------
(* __init__ and run() *)

Init ==
    /\ parameters \in ParameterSpace
    /\ mtx = [c \in Coords(parameters.matrix_size) |-> 0]
    /\ mut_container = <<>>
    /\ pool = EmptyBag
    /\ benefitial_mutation = <<>>
    /\ growth_plot_data = <<>>
    /\ mutation_counter = 0
    /\ step = 0
    /\ temp_pool = EmptyBag
    /\ todo = EmptyBag
    /\ pc = "init"
    /\ err = ""
    /\ last = NoLast
    /\ DNA = <<>>
    /\ edge_hist = <<>>
    /\ args = NoArgs
    /\ vaf = NoVaf
    /\ ancestry = <<>>

initLoc ==
    IF parameters.tumour_multiplicity = "single"
    THEN <<(parameters.matrix_size * 50) \div 100, (parameters.matrix_size * 50) \div 100>>
    ELSE <<(parameters.matrix_size * 45) \div 100, (parameters.matrix_size * 50) \div 100>>

secondinitLoc ==
    <<(parameters.matrix_size * 65) \div 100, (parameters.matrix_size * 51) \div 100>>

mutation_counter_init == 1

Run ==
    /\ pc = "init"
    /\ IF parameters.tumour_multiplicity = "single"
       THEN /\ mtx' = [mtx EXCEPT ![initLoc] = 1]
            /\ mut_container' = <<<<0, 0>>, <<0, 1>>>>
            /\ ancestry' = <<<<>>, <<1>>>>
            /\ pool' = SetToBag({initLoc})
       ELSE /\ mtx' = [[mtx EXCEPT ![initLoc] = 1] EXCEPT ![secondinitLoc] = 2]
            /\ mut_container' = <<<<0, 0>>, <<0, 1>>, <<0, 2>>>>
            /\ ancestry' = <<<<>>, <<1>>, <<2>>>>
            /\ pool' = SetToBag({initLoc}) (+) SetToBag({secondinitLoc})
    /\ growth_plot_data' = <<>>
    /\ mutation_counter' = mutation_counter_init
    /\ step' = 0
    /\ pc' = "generation"
    /\ last' = [NoLast EXCEPT !.kind = "run"]
    /\ UNCHANGED <<parameters, benefitial_mutation, temp_pool, todo, err, DNA, edge_hist>>
    /\ UNCHANGED callVars

----------------------------------------------------------------------------
(* tumourGrowth: one generation *)

StartGeneration ==
    /\ pc = "generation"
    /\ temp_pool' = EmptyBag
    /\ todo' = pool
    /\ pc' = "divide"
    /\ last' = [NoLast EXCEPT !.kind = "start", !.poolBefore = pool]
    /\ UNCHANGED <<parameters, mtx, mut_container, pool, benefitial_mutation,
                   growth_plot_data, mutation_counter, step, err, DNA, edge_hist>>
    /\ UNCHANGED callVars
    /\ UNCHANGED ancestry

Visit(cell) ==
    /\ pc = "divide"
    /\ BagIn(cell, todo)
    /\ todo' = todo (-) SetToBag({cell})

isBenefitial(cell) ==
    \E k \in 1 .. Len(benefitial_mutation) : benefitial_mutation[k] = Get(cell)

(* divisionProbability ignoring the two division probabilities *)
divisionProbability_half(cell) == 50

divisionProbability(cell) ==
    IF isBenefitial(cell)
    THEN parameters.advantageous_division_probability
    ELSE parameters.division_probability

NeighboursIndexError(cell) ==
    /\ Visit(cell)
    /\ neighboursRaises(cell)
    /\ pc' = "error"
    /\ err' = "IndexError"
    /\ last' = [NoLast EXCEPT !.kind = "error", !.cell = cell, !.poolBefore = last.poolBefore]
    /\ UNCHANGED <<parameters, mtx, mut_container, pool, benefitial_mutation,
                   growth_plot_data, mutation_counter, step, temp_pool, DNA, edge_hist>>
    /\ UNCHANGED callVars
    /\ UNCHANGED ancestry

(* "if neigh:" is false, or the division draw fails: the cell is passed over *)
NoDivision(cell) ==
    /\ Visit(cell)
    /\ ~neighboursRaises(cell)
    /\ \/ neighbours(cell) = {}
       \/ FALSE \in Draws(divisionProbability(cell))
    /\ last' = [NoLast EXCEPT !.kind = "nodiv", !.cell = cell,
                              !.benefitial = isBenefitial(cell),
                              !.poolBefore = last.poolBefore]
    /\ UNCHANGED <<parameters, mtx, mut_container, pool, benefitial_mutation,
                   growth_plot_data, mutation_counter, step, temp_pool, pc, err,
                   DNA, edge_hist>>
    /\ UNCHANGED callVars
    /\ UNCHANGED ancestry

(* division() followed by the no-mutation branch of mutation() *)
DivisionInherit(cell) ==
    /\ Visit(cell)
    /\ ~neighboursRaises(cell)
    /\ TRUE \in Draws(divisionProbability(cell))
    /\ FALSE \in Draws(parameters.mutation_rate)
    /\ \E place_to_divide \in neighbours(cell) :
          /\ temp_pool' = temp_pool (+) SetToBag({place_to_divide})
          /\ mtx' = [mtx EXCEPT ![Phys(place_to_divide)] = Get(cell)]
          /\ last' = [NoLast EXCEPT !.kind = "division", !.cell = cell,
                                    !.place = place_to_divide,
                                    !.benefitial = isBenefitial(cell),
                                    !.oldid = Get(cell),
                                    !.benBefore = Len(benefitial_mutation),
                                    !.lenBefore = Len(mut_container),
                                    !.poolBefore = last.poolBefore]
    /\ UNCHANGED <<parameters, mut_container, pool, benefitial_mutation,
                   growth_plot_data, mutation_counter, step, pc, err, DNA, edge_hist>>
    /\ UNCHANGED callVars
    /\ UNCHANGED ancestry

(* benefitialAfter without the test len(benefitial_mutation)==0 *)
benefitialAfter_anyNumber(benefitial, advDraw, newid) ==
    IF benefitial
    THEN Append(benefitial_mutation, newid)
    ELSE IF advDraw /\ step = parameters.time_of_advantageous_mutation
         THEN Append(benefitial_mutation, newid)
         ELSE benefitial_mutation

(* benefitialAfter without the test step==time_of_advantageous_mutation *)
benefitialAfter_anyTime(benefitial, advDraw, newid) ==
    IF benefitial
    THEN Append(benefitial_mutation, newid)
    ELSE IF advDraw /\ Len(benefitial_mutation) = 0
         THEN Append(benefitial_mutation, newid)
         ELSE benefitial_mutation

(* benefitialAfter replacing the set by the daughter's id *)
benefitialAfter_replace(benefitial, advDraw, newid) ==
    IF benefitial
    THEN <<newid>>
    ELSE IF advDraw /\ Len(benefitial_mutation) = 0
            /\ step = parameters.time_of_advantageous_mutation
         THEN Append(benefitial_mutation, newid)
         ELSE benefitial_mutation

(* benefitialAfter adding the mother's new id as well *)
benefitialAfter_mother(benefitial, advDraw, newid) ==
    IF benefitial
    THEN Append(Append(benefitial_mutation, newid), newid + 1)
    ELSE IF advDraw /\ Len(benefitial_mutation) = 0
            /\ step = parameters.time_of_advantageous_mutation
         THEN Append(benefitial_mutation, newid)
         ELSE benefitial_mutation

(* the advantageous gate of mutation(): lines 784-794 *)
benefitialAfter(benefitial, advDraw, newid) ==
    IF benefitial
    THEN Append(benefitial_mutation, newid)
    ELSE IF advDraw /\ Len(benefitial_mutation) = 0
            /\ step = parameters.time_of_advantageous_mutation
         THEN Append(benefitial_mutation, newid)
         ELSE benefitial_mutation

(* newMotherId giving the mother the index of the daughter's entry *)
newMotherId_daughter(container) == Len(container) - 2

(* newMotherId giving the mother the ledger length *)
newMotherId_length(container) == Len(container)

(* line 801: the mother's new clone-id, len(self.__mut_container)-1 *)
newMotherId(container) == Len(container) - 1

(* parentOf naming the root as the parent of every new entry *)
parentOf_root(container, id) == 0

(* lines 777, 797: self.__mut_container[self.__mtx[cell]][1] *)
parentOf(container, id) == At(container, id)[2]

(* appendEntry putting the new entry in front of the list *)
appendEntry_front(container, origin, count) == <<<<origin, count>>>> \o container

(* lines 777, 797: self.__mut_container.append((origin, count)) *)
appendEntry(container, origin, count) == Append(container, <<origin, count>>)

(* division() followed by the mutation branch of mutation() *)
DivisionMutation(cell) ==
    /\ Visit(cell)
    /\ ~neighboursRaises(cell)
    /\ TRUE \in Draws(divisionProbability(cell))
    /\ TRUE \in Draws(parameters.mutation_rate)
    /\ Len(mut_container) + 2 <= MaxLedger
    /\ \E place_to_divide \in neighbours(cell) :
       \E advDraw \in Draws(parameters.advantageous_mutation_probability) :
          LET benefitial == isBenefitial(cell)
              counter1 == mutation_counter + 1
              newid == Len(mut_container)
              mtx1 == [mtx EXCEPT ![Phys(place_to_divide)] = newid]
              container1 == appendEntry(mut_container,
                                        parentOf(mut_container, mtx1[Phys(cell)]),
                                        counter1)
              counter2 == counter1 + 1
              container2 == appendEntry(container1,
                                        parentOf(container1, mtx1[Phys(cell)]),
                                        counter2)
          IN  /\ temp_pool' = temp_pool (+) SetToBag({place_to_divide})
              /\ mtx' = [mtx1 EXCEPT ![Phys(cell)] = newMotherId(container2)]
              /\ mut_container' = container2
              /\ ancestry' = ancestry
                                \o <<Append(At(ancestry, Get(cell)), counter1),
                                     Append(At(ancestry, Get(cell)), counter2)>>
              /\ mutation_counter' = counter2
              /\ benefitial_mutation' = benefitialAfter(benefitial, advDraw, newid)
              /\ last' = [NoLast EXCEPT !.kind = "division", !.cell = cell,
                                        !.place = place_to_divide,
                                        !.benefitial = benefitial,
                                        !.mutated = TRUE,
                                        !.advDraw = (~benefitial /\ advDraw),
                                        !.oldid = Get(cell),
                                        !.benBefore = Len(benefitial_mutation),
                                        !.lenBefore = Len(mut_container),
                                        !.poolBefore = last.poolBefore]
    /\ UNCHANGED <<parameters, pool, growth_plot_data, step, pc, err, DNA, edge_hist>>
    /\ UNCHANGED callVars

(* Merge without the sample of line 857 *)
Merge_noSample ==
    /\ pc = "divide"
    /\ todo = EmptyBag
    /\ pool' = pool (+) temp_pool
    /\ growth_plot_data' = growth_plot_data
    /\ pc' = "death"
    /\ last' = [NoLast EXCEPT !.kind = "merge", !.poolBefore = last.poolBefore]
    /\ UNCHANGED <<parameters, mtx, mut_container, benefitial_mutation,
                   mutation_counter, step, temp_pool, todo, err, DNA, edge_hist>>
    /\ UNCHANGED callVars
    /\ UNCHANGED ancestry

(* lines 856-857: the temporary pool joins the pool, the size is recorded *)
Merge ==
    /\ pc = "divide"
    /\ todo = EmptyBag
    /\ pool' = pool (+) temp_pool
    /\ growth_plot_data' = Append(growth_plot_data, BagCardinality(pool'))
    /\ pc' = "death"
    /\ last' = [NoLast EXCEPT !.kind = "merge", !.poolBefore = last.poolBefore]
    /\ UNCHANGED <<parameters, mtx, mut_container, benefitial_mutation,
                   mutation_counter, step, temp_pool, todo, err, DNA, edge_hist>>
    /\ UNCHANGED callVars
    /\ UNCHANGED ancestry

----------------------------------------------------------------------------
(* deathStep and terminate_cell *)

(* numberToKill rounding up instead of down *)
numberToKill_ceil(n) == (parameters.death_probability * n + 99) \div 100

(* numberToKill with fitness_advantage_death_probability as the rate *)
numberToKill_fitness(n) ==
    (parameters.fitness_advantage_death_probability * n) \div 100

(* numberToKill rounding to the nearest integer *)
numberToKill_round(n) == (parameters.death_probability * n + 50) \div 100

(* math.floor(death_probability * len(pool)) *)
numberToKill(n) == (parameters.death_probability * n) \div 100

terminate_cells(m, sample) ==
    [c \in DOMAIN m |-> IF \E cell \in BagToSet(sample) : Phys(cell) = c THEN 0 ELSE m[c]]

DeathStep ==
    /\ pc = "death"
    /\ \E sample \in SubBag(pool) :
          /\ BagCardinality(sample) = numberToKill(BagCardinality(pool))
          /\ pool' = pool (-) sample
          /\ mtx' = terminate_cells(mtx, sample)
          /\ last' = [NoLast EXCEPT !.kind = "death",
                                    !.poolBefore = last.poolBefore,
                                    !.killed = sample,
                                    !.killedIds = {Get(cell) : cell \in BagToSet(sample)}]
    /\ growth_plot_data' = Append(growth_plot_data, BagCardinality(pool'))
    /\ IF step = parameters.number_of_generations - 1
       THEN pc' = "final" /\ step' = step
       ELSE pc' = "generation" /\ step' = step + 1
    /\ UNCHANGED <<parameters, mut_container, benefitial_mutation, mutation_counter,
                   temp_pool, todo, err, DNA, edge_hist>>
    /\ UNCHANGED callVars
    /\ UNCHANGED ancestry

(* lines 862-869: the call self.mutation_reconstruction(self.__mtx[i])     *)
(* passes an argument the method (line 573) does not take: TypeError for   *)
(* the first cell of a non-empty pool; with an empty pool bulk_seq([])     *)
(* fails in np.min with ValueError.                                        *)
FinalReconstruction ==
    /\ pc = "final"
    /\ pc' = "error"
    /\ err' = IF pool = EmptyBag THEN "ValueError" ELSE "TypeError"
    /\ last' = [NoLast EXCEPT !.kind = "final"]
    /\ UNCHANGED <<parameters, mtx, mut_container, pool, benefitial_mutation,
                   growth_plot_data, mutation_counter, step, temp_pool, todo,
                   DNA, edge_hist>>
    /\ UNCHANGED callVars
    /\ UNCHANGED ancestry

(* sampling(sample), lines 433-449, called on the simulator after run():   *)
(* the comprehension of line 441 looks up self.__mutation_reconstruction,  *)
(* a name the class does not define (the method is                         *)
(* mutation_reconstruction), for the first element of the sample:          *)
(* AttributeError; with an empty sample the comprehension is empty and     *)
(* bulk_seq([]) fails in np.min with ValueError.                           *)
Sampling ==
    /\ pc = "error"
    /\ last.kind = "final"
    /\ \E sample \in SubBag(pool) :
          err' = IF sample = EmptyBag THEN "ValueError" ELSE "AttributeError"
    /\ last' = [NoLast EXCEPT !.kind = "sampling"]
    /\ UNCHANGED <<parameters, mtx, mut_container, pool, benefitial_mutation,
                   growth_plot_data, mutation_counter, step, temp_pool, todo,
                   pc, DNA, edge_hist>>
    /\ UNCHANGED callVars
    /\ UNCHANGED ancestry

----------------------------------------------------------------------------
(* mutation_reconstruction: the walk made for one cell (lines 590-612) *)

(* dict([(k,v) for v,k in mut_container]): the last entry with count m wins *)
lookup_map(container, m) ==
    LET idx == CHOOSE i \in 1 .. Len(container) :
                  /\ container[i][2] = m
                  /\ \A j \in (i + 1) .. Len(container) : container[j][2] # m
    IN  container[idx][1]

(* the loop "while m>0"; more than Len(container) look-ups means a value   *)
(* of m came back, and then the loop never ends                            *)
RECURSIVE trace(_, _, _)
trace(container, m, fuel) ==
    IF m <= 0
    THEN [terminates |-> TRUE, mut_prof |-> <<>>]
    ELSE IF fuel = 0
         THEN [terminates |-> FALSE, mut_prof |-> <<>>]
         ELSE LET rest == trace(container, lookup_map(container, m), fuel - 1)
              IN  [terminates |-> rest.terminates,
                   mut_prof |-> Append(rest.mut_prof, m)]

(* mutation_reconstruction without the reversal mut_prof[::-1] of line 612 *)
mutation_reconstruction_leafFirst(cell) ==
    LET r == trace(mut_container, At(mut_container, Get(cell))[2], Len(mut_container))
        n == Len(r.mut_prof)
    IN  [terminates |-> r.terminates,
         mut_prof |-> [k \in 1 .. n |-> r.mut_prof[n + 1 - k]]]

mutation_reconstruction(cell) ==
    trace(mut_container, At(mut_container, Get(cell))[2], Len(mut_container))

----------------------------------------------------------------------------
(* bulk_seq (lines 549-560), called directly with a list of mutation lists *)

RECURSIVE Flatten(_)
Flatten(dna) ==
    IF Len(dna) = 0 THEN <<>> ELSE Head(dna) \o Flatten(Tail(dna))

Count(seq, id) == Cardinality({i \in 1 .. Len(seq) : seq[i] = id})

Range(seq) == {seq[i] : i \in 1 .. Len(seq)}

Min(S) == CHOOSE x \in S : \A y \in S : x <= y

Max(S) == CHOOSE x \in S : \A y \in S : x >= y

(* np.min of an empty list raises, and so does np.histogram with 0 bins *)
bulk_seq_raises(dna) ==
    IF Len(Flatten(dna)) = 0
    THEN TRUE
    ELSE Max(Range(Flatten(dna))) - Min(Range(Flatten(dna))) = 0

(* np.histogram(reduced, bins, range=(mn,mx)): bins of width 1 starting at *)
(* mn, the last one closed on both sides; paired with the left edges       *)
bulk_seq(dna) ==
    LET reduced == Flatten(dna)
        mn == Min(Range(reduced))
        mx == Max(Range(reduced))
        bins == mx - mn
        hist == [k \in 1 .. bins |->
                    IF k < bins
                    THEN Count(reduced, mn + k - 1)
                    ELSE Count(reduced, mx - 1) + Count(reduced, mx)]
    IN  [k \in 1 .. bins |-> <<mn + k - 1, hist[k]>>]

SeqsUpTo(S, n) == UNION {[1 .. k -> S] : k \in 0 .. n}

InitBulk ==
    /\ parameters = DefaultParameters
    /\ mtx = [c \in Coords(parameters.matrix_size) |-> 0]
    /\ mut_container = <<>>
    /\ pool = EmptyBag
    /\ benefitial_mutation = <<>>
    /\ growth_plot_data = <<>>
    /\ mutation_counter = 0
    /\ step = 0
    /\ temp_pool = EmptyBag
    /\ todo = EmptyBag
    /\ pc = "bulk"
    /\ err = ""
    /\ last = NoLast
    /\ DNA \in SeqsUpTo(SeqsUpTo(1 .. MaxId, MaxMuts), MaxCells)
    /\ edge_hist = <<>>
    /\ args = NoArgs
    /\ vaf = NoVaf
    /\ ancestry = <<>>

BulkSeqReturns ==
    /\ pc = "bulk"
    /\ ~bulk_seq_raises(DNA)
    /\ edge_hist' = bulk_seq(DNA)
    /\ pc' = "bulk_done"
    /\ UNCHANGED <<parameters, mtx, mut_container, pool, benefitial_mutation,
                   growth_plot_data, mutation_counter, step, temp_pool, todo,
                   err, last, DNA>>
    /\ UNCHANGED callVars
    /\ UNCHANGED ancestry

BulkSeqRaises ==
    /\ pc = "bulk"
    /\ bulk_seq_raises(DNA)
    /\ pc' = "error"
    /\ err' = "ValueError"
    /\ UNCHANGED <<parameters, mtx, mut_container, pool, benefitial_mutation,
                   growth_plot_data, mutation_counter, step, temp_pool, todo,
                   last, DNA, edge_hist>>
    /\ UNCHANGED callVars
    /\ UNCHANGED ancestry

----------------------------------------------------------------------------
(* CancerSimulatorParameters(...): construction of a Parameter Bundle *)

(* the values tried for an argument *)
ArgValues(f) ==
    IF f \in ProbabilityFields
    THEN {None, Num(-50), Num(0), Num(50), Num(100), Num(150), Str("abc")}
    ELSE IF f \in IntFields
    THEN {None, Num(-100), Num(-50), Num(0), Num(50), Num(100), Num(150),
          Num(300), Str("abc")}
    ELSE {None, Str("single"), Str("double"), Str("triple"), Num(100)}

(* calls that give at most two arguments, the others being left None *)
ArgSpace ==
    UNION {UNION {{[NoArgs EXCEPT ![f] = v, ![g] = w] :
                      v \in ArgValues(f), w \in ArgValues(g)} :
                  g \in FieldSet} :
           f \in FieldSet}

(* no bundle exists *)
NoParameters ==
    [f \in FieldSet |-> IF f = "tumour_multiplicity" THEN "" ELSE 0]

InitParams ==
    /\ parameters = NoParameters
    /\ mtx = [c \in Coords(NoParameters.matrix_size) |-> 0]
    /\ mut_container = <<>>
    /\ pool = EmptyBag
    /\ benefitial_mutation = <<>>
    /\ growth_plot_data = <<>>
    /\ mutation_counter = 0
    /\ step = 0
    /\ temp_pool = EmptyBag
    /\ todo = EmptyBag
    /\ pc = "construct"
    /\ err = ""
    /\ last = NoLast
    /\ DNA = <<>>
    /\ edge_hist = <<>>
    /\ args \in ArgSpace
    /\ vaf = NoVaf
    /\ ancestry = <<>>

(* the k-th assignment of __init__ raises *)
raisesAt(k) == setter(Fields[k], args[Fields[k]]).raises # ""

(* __init__ (lines 100-111) with every setter returning *)
ConstructReturns ==
    /\ pc = "construct"
    /\ \A k \in 1 .. Len(Fields) : ~raisesAt(k)
    /\ parameters' = [f \in FieldSet |-> setter(f, args[f]).value]
    /\ pc' = "constructed"
    /\ UNCHANGED <<mtx, mut_container, pool, benefitial_mutation,
                   growth_plot_data, mutation_counter, step, temp_pool, todo,
                   err, last, DNA, edge_hist, args, vaf>>
    /\ UNCHANGED ancestry

(* __init__ ended by the first setter that raises *)
ConstructRaises ==
    /\ pc = "construct"
    /\ \E k \in 1 .. Len(Fields) :
          /\ raisesAt(k)
          /\ \A j \in 1 .. (k - 1) : ~raisesAt(j)
          /\ err' = setter(Fields[k], args[Fields[k]]).raises
    /\ pc' = "error"
    /\ UNCHANGED <<parameters, mtx, mut_container, pool, benefitial_mutation,
                   growth_plot_data, mutation_counter, step, temp_pool, todo,
                   last, DNA, edge_hist, args, vaf>>
    /\ UNCHANGED ancestry

----------------------------------------------------------------------------
(* Specifications *)

Next ==
    \/ Run
    \/ StartGeneration
    \/ \E cell \in BagToSet(todo) : NeighboursIndexError(cell)
    \/ \E cell \in BagToSet(todo) : NoDivision(cell)
    \/ \E cell \in BagToSet(todo) : DivisionInherit(cell)
    \/ \E cell \in BagToSet(todo) : DivisionMutation(cell)
    \/ Merge
    \/ DeathStep
    \/ FinalReconstruction
    \/ Sampling

Spec == Init /\ [][Next]_vars

NextBulk ==
    \/ BulkSeqReturns
    \/ BulkSeqRaises

SpecBulk == InitBulk /\ [][NextBulk]_vars

NextParams ==
    \/ ConstructReturns
    \/ ConstructRaises

SpecParams == InitParams /\ [][NextParams]_vars

----------------------------------------------------------------------------
(* Properties *)

GenerationBoundary == last.kind \in {"merge", "death"}

Occupied == {c \in DOMAIN mtx : mtx[c] # 0}

inBenefitial(id) ==
    \E k \in 1 .. Len(benefitial_mutation) : benefitial_mutation[k] = id

(* C1: at every generation boundary (after the merge and after the death   *)
(* pass) the pool size equals the number of nonzero grid entries, every    *)
(* pool coordinate is a grid coordinate holding a nonzero clone-id and     *)
(* every nonzero grid coordinate is in the pool.                           *)
C1_OccupancyBijection ==
    GenerationBoundary =>
        /\ BagCardinality(pool) = Cardinality(Occupied)
        /\ \A cell \in BagToSet(pool) : cell \in DOMAIN mtx /\ mtx[cell] # 0
        /\ \A c \in Occupied : BagIn(c, pool)

(* C2: the own-ids of the ledger are strictly increasing by position and   *)
(* the entry at index i has own-id i.                                      *)
C2_IndexAsId ==
    \A i \in 1 .. Len(mut_container) :
        /\ mut_container[i][2] = i - 1
        /\ i > 1 => mut_container[i - 1][2] < mut_container[i][2]

SeedEntries == IF parameters.tumour_multiplicity = "single" THEN 2 ELSE 3

(* C3: every ledger entry appended by a mutation has a parent id strictly  *)
(* smaller than its own id.                                                *)
C3_ParentBelowOwn ==
    \A i \in 1 .. Len(mut_container) :
        i > SeedEntries => mut_container[i][1] < mut_container[i][2]

(* C4: the reconstruction of any live cell ends after at most (ledger      *)
(* length) predecessor look-ups and returns a non-empty list.              *)
C4_ReconstructionTerminates ==
    pc # "init" =>
        \A cell \in BagToSet(pool) :
            /\ mutation_reconstruction(cell).terminates
            /\ Len(mutation_reconstruction(cell).mut_prof) >= 1
            /\ Len(mutation_reconstruction(cell).mut_prof) <= Len(mut_container)

ExactHistogram(dna) ==
    LET reduced == Flatten(dna)
        mn == Min(Range(reduced))
        mx == Max(Range(reduced))
    IN  [k \in 1 .. (mx - mn + 1) |-> <<mn + k - 1, Count(reduced, mn + k - 1)>>]

(* C5: for an input holding at least one mutation id, bulk_seq returns one *)
(* (id, count) pair per integer id from the minimum to the maximum id      *)
(* present, count being the number of occurrences of the id in the input.  *)
C5_HistogramExact ==
    (pc # "bulk" /\ Len(Flatten(DNA)) > 0) =>
        /\ pc = "bulk_done"
        /\ edge_hist = ExactHistogram(DNA)

(* C6: for every cell the division loop is about to visit, neighbours does *)
(* not fail and returns exactly the Moore-adjacent coordinates that lie    *)
(* inside the lattice and are empty.                                       *)
C6_NeighboursInLattice ==
    /\ err # "IndexError"
    /\ pc = "divide" =>
          \A cell \in BagToSet(todo) :
              /\ ~neighboursRaises(cell)
              /\ neighbours(cell) =
                    {y \in neighboursList(cell) \cap DOMAIN mtx : mtx[y] = 0}

(* C7 as stated: the Beneficial-mutation set never has more than one       *)
(* element.                                                                *)
C7_AtMostOneBeneficial == Len(benefitial_mutation) <= 1

(* C7 as amended: only the first id of the Beneficial-mutation set comes   *)
(* from the advantageous-mutation draw of a neutral division (made while   *)
(* the set is empty); every later id is the daughter of a mutating         *)
(* division of a cell whose clone-id is already in the set, its ledger     *)
(* parent being the own-id of an earlier id of the set.                    *)
C7_OneSeededLineage ==
    /\ \A k \in 2 .. Len(benefitial_mutation) :
          \E j \in 1 .. (k - 1) :
              At(mut_container, benefitial_mutation[k])[1]
                  = At(mut_container, benefitial_mutation[j])[2]
    /\ (last.kind = "division" /\ Len(benefitial_mutation) > last.benBefore) =>
          /\ last.mutated
          /\ last.benefitial \/ last.benBefore = 0
          /\ Len(benefitial_mutation) = last.benBefore + 1

C7_Witness ==
    /\ Len(benefitial_mutation) >= 2
    /\ last.kind = "division"
    /\ last.benefitial
    /\ last.mutated

(* C8: the Beneficial-mutation set goes from empty to non-empty only in    *)
(* the generation whose index is time_of_advantageous_mutation; a          *)
(* successful advantageous-mutation draw of a mutating neutral division    *)
(* made with the set empty adds the daughter's clone-id in that generation *)
(* and leaves the set empty in any other.                                  *)
C8_EligibilityWindow ==
    [][/\ (benefitial_mutation = <<>> /\ benefitial_mutation' # <<>>) =>
              /\ step = parameters.time_of_advantageous_mutation
              /\ last'.kind = "division"
              /\ last'.mutated
       /\ (last'.kind = "division" /\ last'.advDraw /\ benefitial_mutation = <<>>) =>
              IF step = parameters.time_of_advantageous_mutation
              THEN benefitial_mutation' = <<mtx'[Phys(last'.place)]>>
              ELSE benefitial_mutation' = <<>>]_vars

C8_Witness ==
    /\ last.kind = "division"
    /\ last.advDraw
    /\ last.benBefore = 0
    /\ step = parameters.time_of_advantageous_mutation
    /\ benefitial_mutation = <<Get(last.place)>>

(* C9: the death pass applies fitness_advantage_death_probability to the   *)
(* cells whose clone-id is in the Beneficial-mutation set: with that       *)
(* probability 0 no such cell is removed, with that probability 1 no such  *)
(* cell survives the pass.                                                 *)
C9_AdvantageousDeathHonoured ==
    last.kind = "death" =>
        /\ parameters.fitness_advantage_death_probability = 0 =>
              \A id \in last.killedIds : ~inBenefitial(id)
        /\ parameters.fitness_advantage_death_probability = 100 =>
              \A cell \in BagToSet(pool) : ~isBenefitial(cell)

(* C10 as stated: no cell created by a division of generation g is removed *)
(* by the death pass of generation g.                                      *)
C10_NewCellsSurviveDeath ==
    last.kind = "death" =>
        \A cell \in BagToSet(last.killed) : ~BagIn(cell, temp_pool)

(* C10 as amended: the death pass of generation g samples the merged pool: *)
(* the removed cells are floor(death_probability * size) cells of the pool *)
(* made of the cells present before the division phase together with the  *)
(* cells created in generation g, and the pool afterwards is that merged   *)
(* pool without them.                                                      *)
C10_DeathSamplesMergedPool ==
    last.kind = "death" =>
        LET merged == last.poolBefore (+) temp_pool
        IN  /\ last.killed \sqsubseteq merged
            /\ BagCardinality(last.killed)
                  = (parameters.death_probability * BagCardinality(merged)) \div 100
            /\ pool = merged (-) last.killed

C10_Witness ==
    /\ last.kind = "death"
    /\ \E cell \in BagToSet(last.killed) :
          BagIn(cell, temp_pool) /\ ~BagIn(cell, last.poolBefore)

C12_EmptyInputEmptyResult ==
    (pc # "bulk" /\ Len(Flatten(DNA)) = 0) =>
        /\ pc = "bulk_done"
        /\ err = ""
        /\ edge_hist = <<>>

FullLattice == \A c \in DOMAIN mtx : mtx[c] # 0

(* C13: while the lattice is completely full no visit of a cell raises an  *)
(* error, cells on the lattice boundary included: every cell still to be   *)
(* visited gets its (empty) list of free neighbours, so that it is passed  *)
(* over.                                                                   *)
C13_ExhaustedSpaceNoError ==
    FullLattice =>
        /\ err # "IndexError"
        /\ pc = "divide" =>
              \A cell \in BagToSet(todo) :
                  ~neighboursRaises(cell) /\ neighbours(cell) = {}

(* C14: a division whose mutation draw fails places exactly one new cell:  *)
(* on a coordinate of the lattice that is Moore-adjacent to the mother and *)
(* was empty, with the mother's clone-id (a clone-id, so not 0); no other  *)
(* grid entry changes, the mother's included, and the ledger, the mutation *)
(* counter and the Beneficial-mutation set are unchanged.                  *)
C14_InheritingDivisionFrame ==
    [][(last'.kind = "division" /\ ~last'.mutated) =>
          /\ last'.place \in neighboursList(last'.cell) \cap DOMAIN mtx
          /\ last'.cell \in DOMAIN mtx
          /\ mtx[last'.place] = 0
          /\ mtx[last'.cell] # 0
          /\ mtx' = [mtx EXCEPT ![last'.place] = mtx[last'.cell]]
          /\ temp_pool' = temp_pool (+) SetToBag({last'.place})
          /\ mut_container' = mut_container
          /\ mutation_counter' = mutation_counter
          /\ benefitial_mutation' = benefitial_mutation]_vars

(* C15: a division whose mutation draw succeeds appends exactly two ledger *)
(* entries (the earlier entries stay) and advances the mutation counter by *)
(* exactly 2; afterwards the mother's clone-id is the index of one of the  *)
(* new entries, so different from her clone-id before, and the daughter's  *)
(* clone-id differs from the mother's clone-id before and from her new     *)
(* one.                                                                    *)
C15_MutatingDivision ==
    [][(last'.kind = "division" /\ last'.mutated) =>
          LET mother == Phys(last'.cell)
              daughter == Phys(last'.place)
          IN  /\ Len(mut_container') = Len(mut_container) + 2
              /\ SubSeq(mut_container', 1, Len(mut_container)) = mut_container
              /\ mutation_counter' = mutation_counter + 2
              /\ mtx'[mother] >= Len(mut_container)
              /\ mtx'[mother] # mtx[mother]
              /\ mtx'[daughter] # mtx[mother]
              /\ mtx'[daughter] # mtx'[mother]]_vars

C15_Witness ==
    /\ last.kind = "division"
    /\ last.mutated
    /\ Len(mut_container) = last.lenBefore + 2
    /\ Get(last.cell) # last.oldid
    /\ Get(last.place) \notin {last.oldid, Get(last.cell)}

(* C16: with division_probability = 0 and                                  *)
(* advantageous_division_probability = 0 no step of a generation makes the *)
(* pool larger, and no division takes place.                               *)
C16_NoDivisionNoGrowth ==
    [][(/\ pc # "init"
        /\ parameters.division_probability = 0
        /\ parameters.advantageous_division_probability = 0) =>
          /\ BagCardinality(pool') <= BagCardinality(pool)
          /\ last'.kind # "division"]_vars

C16_Witness ==
    /\ parameters.division_probability = 0
    /\ parameters.advantageous_division_probability = 0
    /\ last.kind = "death"
    /\ BagCardinality(pool) < BagCardinality(last.poolBefore)

(* C17: with death_probability = 0 no step makes the pool smaller, also    *)
(* when the pool holds cells with a clone-id of the Beneficial-mutation    *)
(* set and fitness_advantage_death_probability is positive.                *)
C17_NoDeathNoShrink ==
    [][parameters.death_probability = 0 =>
          /\ BagCardinality(pool') >= BagCardinality(pool)
          /\ last'.kind = "death" => last'.killed = EmptyBag /\ mtx' = mtx]_vars

C17_Witness ==
    /\ parameters.death_probability = 0
    /\ parameters.fitness_advantage_death_probability > 0
    /\ last.kind = "death"
    /\ \E cell \in BagToSet(pool) : isBenefitial(cell)
    /\ BagCardinality(pool) > BagCardinality(last.poolBefore)

(* C18: a death pass on a pool of n cells removes exactly                  *)
(* floor(death_probability * n) cells with pairwise different coordinates; *)
(* the grid entry of each removed cell is 0 afterwards and its coordinate  *)
(* is no longer in the pool; every cell not removed is still in the pool   *)
(* with the clone-id it had.                                               *)
C18_DeathStepExact ==
    [][last'.kind = "death" =>
          /\ BagCardinality(last'.killed)
                = (parameters.death_probability * BagCardinality(pool)) \div 100
          /\ BagCardinality(pool')
                = BagCardinality(pool) - BagCardinality(last'.killed)
          /\ \A cell \in BagToSet(last'.killed) :
                /\ CopiesIn(cell, last'.killed) = 1
                /\ mtx'[Phys(cell)] = 0
                /\ ~BagIn(cell, pool')
          /\ \A cell \in BagToSet(pool') :
                /\ CopiesIn(cell, pool') = CopiesIn(cell, pool)
                /\ mtx'[Phys(cell)] = mtx[Phys(cell)]]_vars

DocumentedDefaults ==
    [matrix_size |-> 10,
     number_of_generations |-> 2,
     division_probability |-> 100,
     advantageous_division_probability |-> 100,
     death_probability |-> 0,
     fitness_advantage_death_probability |-> 0,
     mutation_rate |-> 80,
     advantageous_mutation_probability |-> 100,
     mutations_per_division |-> 1,
     time_of_advantageous_mutation |-> 50000,
     number_of_clonal |-> 1,
     tumour_multiplicity |-> "single"]

(* the values the claim calls outside the permitted range (numbers in      *)
(* hundredths)                                                             *)
OutOfRange(f, v) ==
    IF f = "tumour_multiplicity"
    THEN v.tag # "None" /\ ~(v.tag = "str" /\ v.str \in {"single", "double"})
    ELSE /\ v.tag = "num"
         /\ \/ f \in ProbabilityFields /\ (v.num < 0 \/ v.num > 100)
            \/ f \in {"matrix_size", "number_of_generations"} /\ v.num < 100
            \/ f = "mutations_per_division" /\ v.num < 0

(* C19: a construction given a probability outside [0, 1], a matrix_size   *)
(* or number_of_generations below 1, a negative mutations_per_division or  *)
(* a tumour_multiplicity other than 'single' and 'double' raises and makes *)
(* no bundle; a construction that returns has given every argument left    *)
(* None its default.                                                       *)
C19_OutOfRangeRaises ==
    pc # "construct" =>
        /\ (\E f \in FieldSet : OutOfRange(f, args[f])) =>
              /\ pc = "error"
              /\ err \in {"ValueError", "TypeError"}
              /\ parameters = NoParameters
        /\ pc = "constructed" =>
              \A f \in FieldSet :
                  args[f].tag = "None" => parameters[f] = DocumentedDefaults[f]

(* C20: sampling(sample) on a subset of the pool after a run returns the   *)
(* sorted (mutation-id, count) sequence and does not fail.                 *)
C20_SamplingReturns ==
    last.kind = "sampling" => err = ""

(* C21: the reconstruction of every live cell ends and returns, from root  *)
(* to leaf, exactly the own-ids of the ledger entries made along the line  *)
(* of descent of the cell's clone (founder entry first), in single and in  *)
(* double mode; so a cell of the second tumour reports no mutation of the  *)
(* first.                                                                  *)
C21_ReconstructionIsAncestry ==
    pc # "init" =>
        \A cell \in BagToSet(pool) :
            /\ mutation_reconstruction(cell).terminates
            /\ mutation_reconstruction(cell).mut_prof = At(ancestry, Get(cell))

(* C22: in a mutating division the daughter's new clone-id is the ledger   *)
(* length before the append, the mother's new clone-id is the index of the *)
(* second appended entry, and both appended entries have as parent the     *)
(* own-id of the ledger entry of the mother's clone-id before the          *)
(* division.                                                               *)
C22_MutationEntries ==
    [][(last'.kind = "division" /\ last'.mutated) =>
          LET mother == Phys(last'.cell)
              daughter == Phys(last'.place)
              n == Len(mut_container)
          IN  /\ mtx'[daughter] = n
              /\ mtx'[mother] = n + 1
              /\ Len(mut_container') = n + 2
              /\ At(mut_container', n)[1] = At(mut_container, mtx[mother])[2]
              /\ At(mut_container', n + 1)[1] = At(mut_container, mtx[mother])[2]]_vars

C22_Witness ==
    /\ last.kind = "division"
    /\ last.mutated
    /\ last.oldid >= 3
    /\ Get(last.place) = last.lenBefore
    /\ Get(last.cell) = last.lenBefore + 1
    /\ At(mut_container, last.lenBefore)[1] = At(mut_container, last.oldid)[2]
    /\ At(mut_container, last.lenBefore)[1] > 0

(* C23: while the division loop runs the live pool is not modified; the    *)
(* cell a step of the loop visits was in the pool at the start of the      *)
(* generation and is not a cell created in this generation (no cell of the *)
(* temporary pool lies on its grid coordinate), and a cell that has been   *)
(* visited is not visited again, so it divides at most once.               *)
C23_PhaseBarrier ==
    [][(pc = "divide" /\ todo' # todo) =>
          /\ pool' = pool
          /\ todo \sqsubseteq pool
          /\ BagIn(last'.cell, last'.poolBefore)
          /\ \A c \in BagToSet(temp_pool) : Phys(c) # Phys(last'.cell)
          /\ ~BagIn(last'.cell, todo')]_vars

(* C24: the Beneficial-mutation set never shrinks: every step of a run     *)
(* (division, mutation, death pass, reconstruction) leaves the ids it      *)
(* holds in place, the death of the cells that carry them included.        *)
C24_BeneficialSetGrowsOnly ==
    [][/\ Len(benefitial_mutation') >= Len(benefitial_mutation)
       /\ SubSeq(benefitial_mutation', 1, Len(benefitial_mutation))
              = benefitial_mutation]_vars

C24_Witness ==
    /\ last.kind = "death"
    /\ Len(benefitial_mutation) >= 2
    /\ \E id \in last.killedIds : inBenefitial(id)

(* C25: the Lineage Ledger is append-only: no step of a run makes it       *)
(* shorter or changes the position or the (parent, own) values of an entry *)
(* it holds; the death of a cell removes no entry.                         *)
C25_LedgerAppendOnly ==
    [][/\ Len(mut_container') >= Len(mut_container)
       /\ SubSeq(mut_container', 1, Len(mut_container)) = mut_container]_vars

C25_Witness ==
    /\ last.kind = "death"
    /\ Len(mut_container) > SeedEntries
    /\ \E id \in last.killedIds : id >= SeedEntries

(* C26: the population history is append-only and gets exactly two samples *)
(* per generation: the pool size after the merge of the temporary pool,    *)
(* then the pool size after the death pass; after g completed generations  *)
(* it has 2*g entries, and the sample after a death pass is never larger   *)
(* than the sample before it.                                              *)
C26_TwoSamplesPerGeneration ==
    [][/\ Len(growth_plot_data') >= Len(growth_plot_data)
       /\ SubSeq(growth_plot_data', 1, Len(growth_plot_data)) = growth_plot_data
       /\ growth_plot_data' # growth_plot_data => last'.kind \in {"merge", "death"}
       /\ last'.kind = "merge" =>
              /\ growth_plot_data' = Append(growth_plot_data, BagCardinality(pool'))
              /\ Len(growth_plot_data') = 2 * step + 1
       /\ last'.kind = "death" =>
              /\ growth_plot_data' = Append(growth_plot_data, BagCardinality(pool'))
              /\ Len(growth_plot_data') = 2 * (step + 1)
              /\ \A k \in 1 .. (step + 1) :
                    growth_plot_data'[2 * k] <= growth_plot_data'[2 * k - 1]]_vars

C26_Witness ==
    /\ last.kind = "death"
    /\ Len(growth_plot_data) = 4
    /\ growth_plot_data[2] < growth_plot_data[1]
    /\ growth_plot_data[3] > growth_plot_data[2]
    /\ growth_plot_data[4] < growth_plot_data[3]

(* C27: between operations every occupied grid coordinate holds a clone-id *)
(* c with 1 <= c < ledger length, and the clone-id read for any cell of    *)
(* the pool is an index of the ledger, so the look-up of its entry stays   *)
(* in range.                                                               *)
C27_CloneIdInLedger ==
    /\ \A c \in Occupied : 1 <= mtx[c] /\ mtx[c] < Len(mut_container)
    /\ \A cell \in BagToSet(pool) \cup BagToSet(temp_pool) :
          0 <= Get(cell) /\ Get(cell) < Len(mut_container)

C27_Witness ==
    /\ last.kind = "division"
    /\ last.mutated
    /\ Get(last.cell) = Len(mut_container) - 1
    /\ Len(mut_container) = MaxLedger

(* C28: with death_probability < 1 the pool is non-empty at every          *)
(* generation boundary (after the merge and after the death pass) and when *)
(* the final reconstruction starts.                                        *)
C28_PoolNeverEmpty ==
    (parameters.death_probability < 100 /\ pc # "init") => pool # EmptyBag

C28_Witness ==
    /\ parameters.death_probability > 0
    /\ parameters.death_probability < 100
    /\ pc = "final"
    /\ last.kind = "death"
    /\ last.killed # EmptyBag
    /\ pool # EmptyBag

(* C29: in single mode the reconstructed list of every live cell ends,     *)
(* starts with the founder id 1 and is strictly increasing.                *)
C29_FounderInEveryCell ==
    (parameters.tumour_multiplicity = "single" /\ pc # "init") =>
        \A cell \in BagToSet(pool) :
            LET r == mutation_reconstruction(cell)
            IN  /\ r.terminates
                /\ Len(r.mut_prof) >= 1
                /\ r.mut_prof[1] = 1
                /\ \A k \in 1 .. (Len(r.mut_prof) - 1) :
                      r.mut_prof[k] < r.mut_prof[k + 1]

C29_Witness ==
    /\ parameters.tumour_multiplicity = "single"
    /\ last.kind = "death"
    /\ step > 0
    /\ \E cell \in BagToSet(pool) :
          /\ Len(mutation_reconstruction(cell).mut_prof) >= 3
          /\ mutation_reconstruction(cell).mut_prof[1] = 1

(* C30: when a cell whose clone-id is in the Beneficial-mutation set       *)
(* divides with a mutation, the daughter's new clone-id is added to the    *)
(* set and the mother's new clone-id is not, so that the mother is a       *)
(* neutral cell from then on; when it divides without mutation, the set is *)
(* unchanged and mother and daughter both hold an id of the set.           *)
C30_MotherLeavesAdvantage ==
    [][(last'.kind = "division" /\ last'.benefitial) =>
          LET mother == Phys(last'.cell)
              daughter == Phys(last'.place)
              inSet(id, set) == \E k \in 1 .. Len(set) : set[k] = id
          IN  IF last'.mutated
              THEN /\ benefitial_mutation'
                        = Append(benefitial_mutation, mtx'[daughter])
                   /\ ~inSet(mtx'[mother], benefitial_mutation')
              ELSE /\ benefitial_mutation' = benefitial_mutation
                   /\ inSet(mtx'[mother], benefitial_mutation')
                   /\ inSet(mtx'[daughter], benefitial_mutation')]_vars

C30_Witness ==
    /\ last.kind = "division"
    /\ last.benefitial
    /\ last.mutated
    /\ ~isBenefitial(last.cell)
    /\ isBenefitial(last.place)
    /\ inBenefitial(last.oldid)

C30_WitnessInherit ==
    /\ last.kind = "division"
    /\ last.benefitial
    /\ ~last.mutated
    /\ isBenefitial(last.cell)
    /\ isBenefitial(last.place)

====
